---- MODULE Spec2Model ----
(***************************************************************************)
(* One call of GetMediaGroup.get_media_group(chat_id, message_id) of       *)
(* pyrogram/methods/messages/get_media_group.py against a chat that does   *)
(* not change during the call.  Every await of self.get_messages is split  *)
(* in two steps, the request being issued and its answer being consumed.   *)
(***************************************************************************)
EXTENDS Integers, Sequences, FiniteSets, TLC

\* ---------------------------------------------------------------- bounds
\* Highest message id that exists in a modelled chat.
MaxId == 12
\* Highest message id that exists in a chat of the termination check.
FairMaxId == 11

\* ------------------------------------------------------ program constants
\* The literal 9 of "current_id - 9" and "current_id + 9".
ChunkSpan == 9

\* ------------------------------------------------------------- messages
\* media_group_id of a message that is in no album (None).
NoGroup == 0
\* Marker of an id under which the chat holds no message.
Absent == 0 - 1
\* The album ids that occur in the modelled chats.
GroupIds == {1, 2}

MessageIds == 1..MaxId
\* The message_id arguments tried: invalid ones, every id of the chat, and
\* one id above the chat's last message.
SeedIds == (0 - 1)..(MaxId + 1)

\* A background in which absent ids, plain messages and messages of album 2
\* alternate.
Mixed ==
    [i \in MessageIds |-> IF i % 3 = 0 THEN Absent
                          ELSE IF i % 3 = 1 THEN NoGroup ELSE 2]

\* What the ids that are not in album 1 hold: plain messages only, or the
\* mix of absent ids, plain messages and messages of album 2.
Backgrounds ==
    { [i \in MessageIds |-> NoGroup],
      Mixed }

\* The chats over a set of backgrounds: any set of ids carries album 1.
ChatsOver(bgs) ==
    { [i \in MessageIds |-> IF i \in M THEN 1 ELSE bg[i]] :
        M \in SUBSET MessageIds, bg \in bgs }

Chats == ChatsOver(Backgrounds)

\* The chats of the termination check: the mixed background up to
\* FairMaxId with any set of those ids carrying album 1, nothing above.
FairChats ==
    { [i \in MessageIds |-> IF i \in M THEN 1
                            ELSE IF i > FairMaxId THEN Absent ELSE Mixed[i]] :
        M \in SUBSET (1..FairMaxId) }

VARIABLES chat, message_id, pc, error, media_group_id, media_group,
          current_id, pending, fetches, result

vars == << chat, message_id, pc, error, media_group_id, media_group,
           current_id, pending, fetches, result >>

Max(a, b) == IF a >= b THEN a ELSE b
Min2(a, b) == IF a <= b THEN a ELSE b

Message(c, i) == [id |-> i, media_group_id |-> c[i]]

Exists(c, i) == i \in MessageIds /\ c[i] # Absent

\* self.get_messages(chat_id, message_ids=range(start_id, end_id + 1)):
\* the messages of the range that exist, in ascending id order.
GetMessages(c, start_id, end_id) ==
    LET all == [k \in 1..Max(0, end_id - start_id + 1) |-> start_id + k - 1]
        present(i) == Exists(c, i)
        ids == SelectSeq(all, present)
    IN  [k \in 1..Len(ids) |-> Message(c, ids[k])]

\* The request a chunk fetch sends.
get_message_chunk(kind, start_id, end_id) ==
    [kind |-> kind, start_id |-> start_id, end_id |-> end_id]

\* Variant: the argument check lets 0 through.
InvalidSeed_strict(id) == id < 0

\* message_id <= 0
InvalidSeed(id) == id <= 0

\* Variant: the chunk is taken unfiltered.
GroupMessages_unfiltered(chunk, gid) == chunk

\* [msg for msg in chunk if msg.media_group_id == media_group_id]
GroupMessages(chunk, gid) ==
    LET same(msg) == msg.media_group_id = gid
    IN  SelectSeq(chunk, same)

\* Variant: the lower bound is not clamped at 1.
BackwardLo_unclamped(cur) == cur - ChunkSpan

\* max(1, current_id - 9)
BackwardLo(cur) == Max(1, cur - ChunkSpan)

\* Variant: the contiguity test is off by one.
BackwardBreak_offbyone(group_messages, cur) ==
    \/ group_messages = << >>
    \/ group_messages[1].id # cur - Len(group_messages)

\* not group_messages or group_messages[0].id != current_id - len(group_messages) + 1
BackwardBreak(group_messages, cur) ==
    \/ group_messages = << >>
    \/ group_messages[1].id # cur - Len(group_messages) + 1

\* current_id = group_messages[0].id - 1
BackwardNext(group_messages) == group_messages[1].id - 1

\* Variant: the forward scan starts at the seed itself.
ForwardStart_atseed(id) == id

\* current_id = message_id + 1
ForwardStart(id) == id + 1

\* Variant: the forward chunk is one id longer.
ForwardHi_wide(cur) == cur + ChunkSpan + 1

\* current_id + 9
ForwardHi(cur) == cur + ChunkSpan

\* current_id = group_messages[-1].id + 1
ForwardNext(group_messages) == group_messages[Len(group_messages)].id + 1

\* sorted(media_group, key=lambda x: x.id)
ById(a, b) == a.id < b.id
Sorted(msgs) == SortSeq(msgs, ById)

Init ==
    /\ chat \in Chats
    /\ message_id \in SeedIds
    /\ pc = "Validating"
    /\ error = "none"
    /\ media_group_id = NoGroup
    /\ media_group = << >>
    /\ current_id = 0
    /\ pending = {}
    /\ fetches = << >>
    /\ result = << >>

\* Lines 58-62: the argument check, then the seed lookup is sent.
Validate ==
    /\ pc = "Validating"
    /\ IF InvalidSeed(message_id)
       THEN /\ pc' = "Failed"
            /\ error' = "InvalidArgument"
            /\ UNCHANGED << pending, fetches >>
       ELSE /\ pc' = "SeedLookup"
            /\ pending' = pending \cup {get_message_chunk("seed", message_id, message_id)}
            /\ fetches' = Append(fetches, get_message_chunk("seed", message_id, message_id))
            /\ UNCHANGED error
    /\ UNCHANGED << chat, message_id, media_group_id, media_group, current_id, result >>

\* Lines 62-82: the seed lookup answers.
SeedLookup ==
    /\ pc = "SeedLookup"
    /\ pending' = pending \ {get_message_chunk("seed", message_id, message_id)}
    /\ IF ~Exists(chat, message_id)
       THEN /\ pc' = "Failed"
            /\ error' = "NotFound"
            /\ UNCHANGED << media_group_id, media_group, current_id >>
       ELSE IF chat[message_id] = NoGroup
       THEN /\ pc' = "Failed"
            /\ error' = "NotAGroupMember"
            /\ UNCHANGED << media_group_id, media_group, current_id >>
       ELSE /\ media_group_id' = chat[message_id]
            /\ media_group' = << >>
            /\ current_id' = message_id
            /\ pc' = "BackwardScan"
            /\ UNCHANGED error
    /\ UNCHANGED << chat, message_id, fetches, result >>

\* Line 84: a backward chunk is requested.
BackwardFetch ==
    /\ pc = "BackwardScan"
    /\ pending' = pending \cup {get_message_chunk("backward", BackwardLo(current_id), current_id)}
    /\ fetches' = Append(fetches, get_message_chunk("backward", BackwardLo(current_id), current_id))
    /\ pc' = "BackwardWait"
    /\ UNCHANGED << chat, message_id, error, media_group_id, media_group, current_id, result >>

\* Lines 84-94: the backward chunk answers; one iteration of the loop.
BackwardStep ==
    /\ pc = "BackwardWait"
    /\ pending' = pending \ {get_message_chunk("backward", BackwardLo(current_id), current_id)}
    /\ LET chunk == GetMessages(chat, BackwardLo(current_id), current_id)
           group_messages == GroupMessages(chunk, media_group_id)
       IN  IF BackwardBreak(group_messages, current_id)
           THEN /\ current_id' = ForwardStart(message_id)
                /\ pc' = "ForwardScan"
                /\ UNCHANGED media_group
           ELSE /\ media_group' = group_messages \o media_group
                /\ IF BackwardNext(group_messages) <= 0
                   THEN /\ current_id' = ForwardStart(message_id)
                        /\ pc' = "ForwardScan"
                   ELSE /\ current_id' = BackwardNext(group_messages)
                        /\ pc' = "BackwardScan"
    /\ UNCHANGED << chat, message_id, error, media_group_id, fetches, result >>

\* Line 96: a forward chunk is requested.
ForwardFetch ==
    /\ pc = "ForwardScan"
    /\ pending' = pending \cup {get_message_chunk("forward", current_id, ForwardHi(current_id))}
    /\ fetches' = Append(fetches, get_message_chunk("forward", current_id, ForwardHi(current_id)))
    /\ pc' = "ForwardWait"
    /\ UNCHANGED << chat, message_id, error, media_group_id, media_group, current_id, result >>

\* Lines 96-101: the forward chunk answers; one iteration of the loop.
ForwardStep ==
    /\ pc = "ForwardWait"
    /\ pending' = pending \ {get_message_chunk("forward", current_id, ForwardHi(current_id))}
    /\ LET chunk == GetMessages(chat, current_id, ForwardHi(current_id))
           group_messages == GroupMessages(chunk, media_group_id)
       IN  IF group_messages = << >>
           THEN /\ pc' = "Assemble"
                /\ UNCHANGED << media_group, current_id >>
           ELSE /\ media_group' = media_group \o group_messages
                /\ current_id' = ForwardNext(group_messages)
                /\ pc' = "ForwardScan"
    /\ UNCHANGED << chat, message_id, error, media_group_id, fetches, result >>

\* Lines 103-106: the empty check, the sort and the return.
Assemble ==
    /\ pc = "Assemble"
    /\ IF media_group = << >>
       THEN /\ pc' = "Failed"
            /\ error' = "AssemblyFailure"
            /\ UNCHANGED result
       ELSE /\ pc' = "Returned"
            /\ result' = Sorted(media_group)
            /\ UNCHANGED error
    /\ UNCHANGED << chat, message_id, media_group_id, media_group, current_id, pending, fetches >>

Next ==
    \/ Validate
    \/ SeedLookup
    \/ BackwardFetch
    \/ BackwardStep
    \/ ForwardFetch
    \/ ForwardStep
    \/ Assemble

Spec == Init /\ [][Next]_vars

\* The calls checked for termination: every chat of FairChats and every
\* seed.
FairInit ==
    /\ chat \in FairChats
    /\ message_id \in SeedIds
    /\ pc = "Validating"
    /\ error = "none"
    /\ media_group_id = NoGroup
    /\ media_group = << >>
    /\ current_id = 0
    /\ pending = {}
    /\ fetches = << >>
    /\ result = << >>

\* The event loop resumes the coroutine whenever the awaited answer is
\* there, so an enabled step is eventually taken.
FairSpec == FairInit /\ [][Next]_vars /\ WF_vars(Next)

\* ------------------------------------------------------------ properties
Terminal == pc \in {"Returned", "Failed"}

IdsOf(msgs) == [k \in 1..Len(msgs) |-> msgs[k].id]
IdSet(msgs) == {msgs[k].id : k \in 1..Len(msgs)}

\* The ids of the chat whose message carries album g.
Members(g) == {i \in MessageIds : chat[i] = g}

SeedInGroup == message_id \in MessageIds /\ chat[message_id] \in GroupIds

\* The maximal run of consecutive ids around the seed that all carry the
\* seed's album.
RunAroundSeed ==
    {i \in MessageIds :
        \A j \in Min2(i, message_id)..Max(i, message_id) :
            chat[j] = chat[message_id]}

\* C1: a successful call on a seed that carries album G returns exactly the
\* maximal contiguous id-run around the seed whose messages all carry G.
C1_MaximalRun ==
    (pc = "Returned" /\ SeedInGroup) => IdSet(result) = RunAroundSeed

\* The album of the seed occupies exactly one run of consecutive ids.
SingleRun == SeedInGroup /\ Members(chat[message_id]) = RunAroundSeed

AscendingRun(lo, hi) == [k \in 1..(hi - lo + 1) |-> lo + k - 1]

\* C2: when the seed's album occupies exactly one contiguous run a..b the
\* call ends by returning, and returns exactly the messages a..b, ascending.
C2_SingleRunExact ==
    (Terminal /\ SingleRun) =>
        /\ pc = "Returned"
        /\ LET a == CHOOSE i \in RunAroundSeed : \A j \in RunAroundSeed : i <= j
               b == CHOOSE i \in RunAroundSeed : \A j \in RunAroundSeed : i >= j
           IN  /\ IdsOf(result) = AscendingRun(a, b)
               /\ \A k \in 1..Len(result) :
                      result[k] = Message(chat, result[k].id)

\* A run longer than one chunk that starts at id 1, entered from a seed
\* with a full chunk below it and members above it.
C2_Witness ==
    /\ pc = "Returned"
    /\ SingleRun
    /\ Len(result) > ChunkSpan + 1
    /\ result[1].id = 1
    /\ message_id > ChunkSpan + 1
    /\ message_id < Len(result)

\* The seed carries G, its predecessor does not, another G lies deeper in
\* the first backward chunk, and no G lies above the seed.
GapBelowSeed ==
    /\ SeedInGroup
    /\ message_id - 1 \in MessageIds
    /\ chat[message_id - 1] # chat[message_id]
    /\ \E i \in MessageIds :
          /\ i >= Max(1, message_id - 9)
          /\ i <= message_id - 2
          /\ chat[i] = chat[message_id]
    /\ \A i \in MessageIds : i > message_id => chat[i] # chat[message_id]

\* C3: with a non-adjacent member of G below the seed inside the first
\* backward chunk and none above, the call returns exactly [seed].
C3_GapBelowKeepsSeed ==
    (Terminal /\ GapBelowSeed) =>
        (pc = "Returned" /\ IdsOf(result) = << message_id >>)

\* C4: every returned message carries the seed's media_group_id and the
\* returned ids are strictly ascending.
C4_SameGroupAscending ==
    pc = "Returned" =>
        /\ \A k \in 1..Len(result) :
              /\ result[k].media_group_id = chat[message_id]
              /\ result[k].media_group_id = media_group_id
        /\ \A k \in 1..(Len(result) - 1) : result[k].id < result[k + 1].id

\* A returned album of several messages reaching both sides of the seed.
C4_Witness ==
    /\ pc = "Returned"
    /\ Len(result) >= 3
    /\ result[1].id < message_id
    /\ result[Len(result)].id > message_id

ChunkFetches == {k \in 1..Len(fetches) : fetches[k].kind # "seed"}

\* C5: message_id <= 0 fails with InvalidArgument before any fetch; an
\* absent seed fails with NotFound and a seed without media_group_id with
\* NotAGroupMember, each after exactly the seed lookup, with no chunk fetch
\* and no result.
C5_InvalidSeedErrors ==
    /\ message_id <= 0 =>
          /\ fetches = << >>
          /\ pending = {}
          /\ result = << >>
          /\ Terminal => (pc = "Failed" /\ error = "InvalidArgument")
    /\ (message_id > 0 /\ ~Exists(chat, message_id)) =>
          /\ ChunkFetches = {}
          /\ result = << >>
          /\ Terminal => (pc = "Failed" /\ error = "NotFound" /\ Len(fetches) = 1)
    /\ (Exists(chat, message_id) /\ chat[message_id] = NoGroup) =>
          /\ ChunkFetches = {}
          /\ result = << >>
          /\ Terminal => (pc = "Failed" /\ error = "NotAGroupMember" /\ Len(fetches) = 1)
    /\ error \in {"InvalidArgument", "NotFound", "NotAGroupMember"} =>
          (ChunkFetches = {} /\ result = << >>)

\* A call that ended with NotAGroupMember after its seed lookup.
C5_Witness ==
    /\ pc = "Failed"
    /\ error = "NotAGroupMember"
    /\ Len(fetches) = 1
    /\ fetches[1].kind = "seed"

\* C6: once the seed lookup found a message with a group id, the call never
\* fails with AssemblyFailure.
C6_NoAssemblyFailure ==
    SeedInGroup => error # "AssemblyFailure"

\* The ids the forward path has matched so far end at current_id - 1.
ForwardLast == current_id - 1

ForwardAdded(reach) ==
    (pc = "ForwardWait" /\ pc' = "ForwardScan") =>
        \A k \in 1..Len(media_group') :
            k > Len(media_group) => media_group'[k].id <= ForwardLast + reach

\* C7: the forward scan never adds a message whose id is more than 9
\* greater than the last id matched so far by the forward path.
C7_ForwardReach9 == [][ForwardAdded(9)]_vars

\* C7 as amended: the forward scan never adds a message whose id is more
\* than 10 greater than the last id matched so far by the forward path.
C7_ForwardReach10 == [][ForwardAdded(ChunkSpan + 1)]_vars

\* A member of the album 11 ids above the seed, nothing in between, and a
\* finished call that left it out.
C7_Witness ==
    /\ pc = "Returned"
    /\ \E i \in Members(media_group_id) :
          /\ i > message_id + ChunkSpan + 1
          /\ \A j \in Members(media_group_id) : ~(j > message_id /\ j < i)
          /\ i \notin IdSet(result)

\* C10: a successful call returns a sequence that contains the seed message.
C10_SeedReturned ==
    pc = "Returned" => message_id \in IdSet(result)

BackwardFetches == {k \in 1..Len(fetches) : fetches[k].kind = "backward"}
ForwardFetches == {k \in 1..Len(fetches) : fetches[k].kind = "forward"}

\* C8: the call terminates; the backward current_id strictly decreases per
\* iteration and is never scanned at 0 or below, the forward current_id
\* strictly increases and the forward scan stops at the first chunk without
\* a match; no chunk fetch requests an id below 1.
C8_Terminates ==
    /\ <>Terminal
    /\ [][(pc = "BackwardWait" /\ pc' = "BackwardScan")
            => current_id' < current_id]_vars
    /\ [](pc \in {"BackwardScan", "BackwardWait"} => current_id >= 1)
    /\ [][(pc = "ForwardWait" /\ pc' = "ForwardScan")
            => current_id' > current_id]_vars
    /\ [][(/\ pc = "ForwardWait"
           /\ \A i \in Members(media_group_id) :
                 ~(i >= current_id /\ i <= current_id + ChunkSpan))
            => pc' = "Assemble"]_vars
    /\ [](\A k \in 1..Len(fetches) : fetches[k].start_id >= 1)

\* A finished call on an album that starts at id 1, whose backward scan
\* asked for a chunk clamped at 1.
C8_Witness ==
    /\ pc = "Returned"
    /\ result[1].id = 1
    /\ \E k \in BackwardFetches :
          fetches[k].start_id = 1 /\ fetches[k].end_id < ChunkSpan + 1

\* What C9 and its amendment share: one fetch outstanding at most, the seed
\* lookup first, chunks of at most 10 ids, backward ones at or below the
\* seed and all answered before the first forward one, forward ones above
\* the seed.
FetchDiscipline ==
    /\ Cardinality(pending) <= 1
    /\ \A k \in 1..Len(fetches) : (fetches[k].kind = "seed") <=> (k = 1)
    /\ \A k \in ChunkFetches :
          fetches[k].end_id - fetches[k].start_id + 1 <= ChunkSpan + 1
    /\ \A k \in BackwardFetches : fetches[k].end_id <= message_id
    /\ \A k \in ForwardFetches : fetches[k].start_id > message_id
    /\ \A k \in ForwardFetches, l \in BackwardFetches : l < k
    /\ ForwardFetches # {} => \A r \in pending : r.kind = "forward"
    /\ \A r \in pending : r = fetches[Len(fetches)]

\* C9: FetchDiscipline, with the backward ranges strictly descending and
\* pairwise disjoint and the forward ranges strictly ascending and pairwise
\* disjoint.
C9_FetchOrderDisjoint ==
    /\ FetchDiscipline
    /\ \A k, l \in BackwardFetches :
          k < l => fetches[l].end_id < fetches[k].start_id
    /\ \A k, l \in ForwardFetches :
          k < l => fetches[l].start_id > fetches[k].end_id

\* C9 as amended: FetchDiscipline, with the upper ends of the backward
\* ranges strictly descending and the lower ends of the forward ranges
\* strictly ascending; successive ranges of one direction may overlap.
C9_FetchOrder ==
    /\ FetchDiscipline
    /\ \A k, l \in BackwardFetches :
          k < l => fetches[l].end_id < fetches[k].end_id
    /\ \A k, l \in ForwardFetches :
          k < l => fetches[l].start_id > fetches[k].start_id

\* A finished call that sent several backward and several forward chunks.
C9_Witness ==
    /\ pc = "Returned"
    /\ Cardinality(BackwardFetches) >= 2
    /\ Cardinality(ForwardFetches) >= 2

====
